---- MODULE Spec2Model ----
(***************************************************************************)
(* DuckDuckGoSearchTool (packages/core/src/tools/duckduckgo-search.ts):    *)
(* parameter validation, the execute() state machine around the single    *)
(* awaited provider call, and the exact text of the results it returns.    *)
(*                                                                         *)
(* JavaScript strings are TLA+ strings (TLC evaluates \o, Len, Head, Tail  *)
(* and SubSeq on them), so every text below is compared byte for byte.     *)
(* A JavaScript value is a record [t |-> type tag, s |-> text]; a call     *)
(* completes with [throw |-> BOOLEAN, value |-> JavaScript value].         *)
(***************************************************************************)
EXTENDS Integers, Sequences, FiniteSets, TLC

\* ------------------------------------------------------------- bounds ----
\* Concurrent invocations of execute() on the one tool instance.
MaxInv == 2
\* Longest query string handed to validateToolParams in ValSpec.
MaxQueryLen == 4
\* Longest result list the provider returns in SeqSpec.
MaxResults == 2

\* ------------------------------------------------------------- state ----
VARIABLES
    validation,  \* a direct call of validateToolParams: its argument and return
    pc,          \* per invocation: idle, awaiting, fulfilled, rejected
    callParams,  \* per invocation: the params argument of execute
    signal,      \* per invocation: signal.aborted
    checked,     \* per invocation: what the read of signal.aborted saw
    calls,       \* per invocation: the arguments of its ddgs.text calls
    outcome,     \* per invocation: how the provider's promise settled
    result,      \* per invocation: the value the promise of execute holds
    errlog       \* per invocation: the lines written by console.error

vars == <<validation, pc, callParams, signal, checked, calls, outcome, result,
          errlog>>

execVars == <<pc, callParams, signal, checked, calls, outcome, result, errlog>>

\* ------------------------------------------------- JavaScript values ----
Str(s) == [t |-> "string", s |-> s]
Num(s) == [t |-> "number", s |-> s]
Null == [t |-> "null", s |-> ""]
Undefined == [t |-> "undefined", s |-> ""]

\* ToBoolean: '', 0, null and undefined are falsy.
Truthy(v) ==
    CASE v.t = "string" -> v.s # ""
      [] v.t = "number" -> v.s # "0"
      [] OTHER -> FALSE

Return(v) == [throw |-> FALSE, value |-> v]
Throw(msg) == [throw |-> TRUE, value |-> Str(msg)]

\* String.prototype.trim: strips leading and trailing white space.
IsWhiteSpace(c) == c \in {" ", "\t", "\n"}

RECURSIVE TrimStart(_)
TrimStart(s) ==
    IF s = "" THEN ""
    ELSE IF IsWhiteSpace(Head(s)) THEN TrimStart(Tail(s))
    ELSE s

RECURSIVE TrimEnd(_)
TrimEnd(s) ==
    IF s = "" THEN ""
    ELSE IF IsWhiteSpace(SubSeq(s, Len(s), Len(s)))
         THEN TrimEnd(SubSeq(s, 1, Len(s) - 1))
    ELSE s

Trim(s) == TrimEnd(TrimStart(s))

\* Array.prototype.join
RECURSIVE Join(_, _)
Join(lines, sep) ==
    IF Len(lines) = 0 THEN ""
    ELSE IF Len(lines) = 1 THEN lines[1]
    ELSE lines[1] \o sep \o Join(Tail(lines), sep)

\* ------------------------------------------------------- validation ----
\* SchemaValidator.validate against {type: OBJECT, properties: {query:
\* {type: STRING}}, required: ['query']}: null when the object conforms,
\* otherwise a message naming the offending field.
SchemaValidate(params) ==
    CASE params.query.t = "undefined" ->
            Str("params must have required property 'query'")
      [] params.query.t # "string" -> Str("params/query must be string")
      [] OTHER -> Null

EmptyQueryMessage == "The 'query' parameter cannot be empty."

\* Variant: the query is not trimmed before the emptiness test.
validateToolParamsNoTrim(params) ==
    LET errors == SchemaValidate(params) IN
    IF Truthy(errors) THEN Return(errors)
    ELSE IF ~Truthy(params.query) THEN Return(Str(EmptyQueryMessage))
    ELSE Return(Null)

validateToolParams(params) ==
    LET errors == SchemaValidate(params) IN
    IF Truthy(errors) THEN Return(errors)
    ELSE IF ~Truthy(params.query) THEN Return(Str(EmptyQueryMessage))
    \* params.query.trim is not a function on a truthy non-string
    ELSE IF params.query.t # "string"
         THEN Throw("params.query.trim is not a function")
    ELSE IF Trim(params.query.s) = "" THEN Return(Str(EmptyQueryMessage))
    ELSE Return(Null)

\* ---------------------------------------------------- result texts ----
\* A DuckDuckGoSearchToolResult; hasSources tells an absent sources field
\* from a present one.
ToolResult(llmContent, returnDisplay) ==
    [llmContent |-> llmContent, returnDisplay |-> returnDisplay,
     hasSources |-> FALSE, sources |-> <<>>]

ToolResultWithSources(llmContent, returnDisplay, sources) ==
    [llmContent |-> llmContent, returnDisplay |-> returnDisplay,
     hasSources |-> TRUE, sources |-> sources]

NoResult == ToolResult("", "")

\* Variant: the display line repeats the prefixed text.
ValidationErrorResultPrefixed(validationError) ==
    ToolResult("Error: Invalid parameters provided. Reason: "
                   \o validationError.s,
               "Error: Invalid parameters provided. Reason: "
                   \o validationError.s)

\* execute, the early return on a validation error.
ValidationErrorResult(validationError) ==
    ToolResult("Error: Invalid parameters provided. Reason: "
                   \o validationError.s,
               validationError.s)

\* Variant: the query is trimmed before it is sent.
TextOptionsTrimmed(params) ==
    [keywords |-> Str(Trim(params.query.s)), safesearch |-> "off",
     maxResults |-> 5]

\* The argument of this.ddgs.text(...).
TextOptions(params) ==
    [keywords |-> params.query, safesearch |-> "off", maxResults |-> 5]

\* execute, the return for a missing or empty result list.
EmptyResult(query) ==
    ToolResult("No search results found for query: \"" \o query \o "\"",
               "No information found.")

\* result.title || 'Untitled' and its two siblings.
OrElse(text, fallback) == IF text # "" THEN text ELSE fallback

DisplayTitle(r) == OrElse(r.title, "Untitled")
DisplayUrl(r) == OrElse(r.href, "No URL")
DisplaySnippet(r) == OrElse(r.body, "No description")

\* The three lines results.forEach appends to formattedResults for the
\* element at the 0-based position index.
ResultBlock(r, index) ==
    ToString(index + 1) \o ". " \o DisplayTitle(r) \o "\n"
        \o "   URL: " \o DisplayUrl(r) \o "\n"
        \o "   Snippet: " \o DisplaySnippet(r) \o "\n\n"

\* Variant: the source line shows the raw title and href.
SourceLineRaw(r, index) ==
    "[" \o ToString(index + 1) \o "] " \o r.title \o " (" \o r.href \o ")"

\* The entry results.forEach pushes onto sourceListFormatted.
SourceLine(r, index) ==
    "[" \o ToString(index + 1) \o "] " \o DisplayTitle(r)
        \o " (" \o DisplayUrl(r) \o ")"

RECURSIVE ForEachBlocks(_, _)
ForEachBlocks(results, index) ==
    IF index >= Len(results) THEN ""
    ELSE ResultBlock(results[index + 1], index)
             \o ForEachBlocks(results, index + 1)

sourceListFormatted(results) ==
    [k \in 1..Len(results) |-> SourceLine(results[k], k - 1)]

\* Variant: the numbering continues from a counter on the tool instance.
formattedResultsCounted(query, results) ==
    "DuckDuckGo search results for \"" \o query \o "\":\n\n"
        \o ForEachBlocks(results,
                         Cardinality({i \in 1..MaxInv : pc[i] = "fulfilled"}))
        \o "\nSources:\n" \o Join(sourceListFormatted(results), "\n")

formattedResults(query, results) ==
    "DuckDuckGo search results for \"" \o query \o "\":\n\n"
        \o ForEachBlocks(results, 0)
        \o "\nSources:\n" \o Join(sourceListFormatted(results), "\n")

\* execute, the return for a non-empty result list.
SuccessResult(query, results) ==
    ToolResultWithSources(formattedResults(query, results),
                          "Search results for \"" \o query \o "\" returned.",
                          results)

\* getErrorMessage: the message of an Error.
getErrorMessage(error) == error.s

JsError(message) == [t |-> "Error", s |-> message]

\* Variant: the query is not quoted in the error text.
errorMessageUnquoted(query, error) ==
    "Error during DuckDuckGo web search for query " \o query \o ": "
        \o getErrorMessage(error)

\* execute, the catch block: the text logged, and the result returned.
errorMessage(query, error) ==
    "Error during DuckDuckGo web search for query \"" \o query \o "\": "
        \o getErrorMessage(error)

ErrorResult(query, error) ==
    ToolResult("Error: " \o errorMessage(query, error),
               "Error performing DuckDuckGo web search.")

\* Variant: an empty list is returned as sources too.
AfterAwaitEmptySources(query, value) ==
    IF value.t # "array" THEN EmptyResult(query)
    ELSE IF Len(value.items) = 0
    THEN ToolResultWithSources(EmptyResult(query).llmContent,
                               EmptyResult(query).returnDisplay, value.items)
    ELSE SuccessResult(query, value.items)

\* execute after the await: what the try block returns for the value the
\* provider's promise resolved with.
AfterAwait(query, value) ==
    IF value.t # "array" \/ Len(value.items) = 0
    THEN EmptyResult(query)
    ELSE SuccessResult(query, value.items)

\* ------------------------------------------------------------ inputs ----
Invocations == 1..MaxInv

RECURSIVE StringsUpTo(_)
StringsUpTo(n) ==
    IF n = 0 THEN {""}
    ELSE LET shorter == StringsUpTo(n - 1) IN
         shorter \cup {s \o c : s \in shorter, c \in {" ", "\t", "q"}}

NonStrings == {Undefined, Null, Num("0"), Num("7")}

\* Parameter objects handed to validateToolParams in ValSpec.
ValParams ==
    {[query |-> v] :
        v \in NonStrings \cup {Str(s) : s \in StringsUpTo(MaxQueryLen)}}

\* Parameter objects handed to execute by a single caller (SeqSpec) and
\* by concurrent callers (Spec).
SeqParams ==
    {[query |-> v] :
        v \in {Undefined, Num("7"), Str(""), Str(" \t"), Str("cats"),
               Str(" big cats "), Str("say \"hi\"")}}

ConcParams ==
    {[query |-> v] :
        v \in {Undefined, Num("7"), Str(" "), Str("cats"), Str("dogs ")}}

\* What the provider's promise resolves with: a list of SearchResult, or
\* no list at all.
Array(items) == [t |-> "array", items |-> items]
NoArray == [t |-> "undefined", items |-> <<>>]

SearchResults == [title : {"", "T"}, href : {"", "http://h"}, body : {"", "B"}]

ListsUpTo(S, n) == UNION {[1..k -> S] : k \in 0..n}

SeqValues == {NoArray} \cup {Array(l) : l \in ListsUpTo(SearchResults, MaxResults)}

Full == [title |-> "T", href |-> "http://h", body |-> "B"]
Bare == [title |-> "", href |-> "", body |-> ""]

ConcValues == {NoArray, Array(<<>>), Array(<<Full>>), Array(<<Bare, Full>>)}

\* What the provider's promise rejects with.
SeqErrors == {JsError("Network error"), JsError("")}
ConcErrors == {JsError("Network error")}

\* How the provider's promise settled, and signal.aborted at that moment.
NoOutcome ==
    [kind |-> "none", value |-> NoArray, error |-> JsError(""),
     aborted |-> FALSE]
Resolved(value, aborted) ==
    [kind |-> "resolved", value |-> value, error |-> JsError(""),
     aborted |-> aborted]
Rejected(error, aborted) ==
    [kind |-> "rejected", value |-> NoArray, error |-> error,
     aborted |-> aborted]

NoValidation ==
    [stage |-> "none", params |-> [query |-> Undefined],
     completion |-> Return(Undefined)]

ExecInit ==
    /\ pc = [i \in Invocations |-> "idle"]
    /\ callParams = [i \in Invocations |-> [query |-> Undefined]]
    /\ signal = [i \in Invocations |-> FALSE]
    /\ checked = [i \in Invocations |-> "none"]
    /\ calls = [i \in Invocations |-> <<>>]
    /\ outcome = [i \in Invocations |-> NoOutcome]
    /\ result = [i \in Invocations |-> NoResult]
    /\ errlog = [i \in Invocations |-> <<>>]

Init == validation = NoValidation /\ ExecInit

ValInit ==
    /\ validation \in
         {[stage |-> "given", params |-> p, completion |-> Return(Undefined)] :
             p \in ValParams}
    /\ ExecInit

\* ----------------------------------------------------------- actions ----
\* The orchestrator calls validateToolParams on its own.
Validate ==
    /\ validation.stage = "given"
    /\ validation' = [validation EXCEPT
                         !.stage = "returned",
                         !.completion = validateToolParams(validation.params)]
    /\ UNCHANGED execVars

\* The owner of the AbortController aborts the signal of invocation i.
Abort(i) ==
    /\ ~signal[i]
    /\ signal' = [signal EXCEPT ![i] = TRUE]
    /\ UNCHANGED <<validation, pc, callParams, checked, calls, outcome, result,
                   errlog>>

\* Variant: the catch block logs and rethrows.
CaughtRethrown(i, query, error) ==
    /\ pc' = [pc EXCEPT ![i] = "rejected"]
    /\ errlog' = [errlog EXCEPT ![i] = Append(@, errorMessage(query, error))]
    /\ UNCHANGED result

\* execute, the catch block: log, then return the error result.
Caught(i, query, error) ==
    /\ pc' = [pc EXCEPT ![i] = "fulfilled"]
    /\ result' = [result EXCEPT ![i] = ErrorResult(query, error)]
    /\ errlog' = [errlog EXCEPT ![i] = Append(@, errorMessage(query, error))]

\* execute(p, signal) up to its await: validation, the read of
\* signal.aborted, and the dispatch of ddgs.text.
Execute(i, p) ==
    /\ pc[i] = "idle"
    /\ callParams' = [callParams EXCEPT ![i] = p]
    /\ LET validationError == validateToolParams(p) IN
       IF validationError.throw
       THEN \* thrown outside the try block
            /\ pc' = [pc EXCEPT ![i] = "rejected"]
            /\ UNCHANGED <<checked, calls, result, errlog>>
       ELSE IF Truthy(validationError.value)
       THEN /\ pc' = [pc EXCEPT ![i] = "fulfilled"]
            /\ result' = [result EXCEPT
                             ![i] = ValidationErrorResult(validationError.value)]
            /\ UNCHANGED <<checked, calls, errlog>>
       ELSE IF signal[i]
       THEN /\ checked' = [checked EXCEPT ![i] = "aborted"]
            /\ Caught(i, p.query.s, JsError("Search was cancelled"))
            /\ UNCHANGED calls
       ELSE /\ checked' = [checked EXCEPT ![i] = "clear"]
            /\ calls' = [calls EXCEPT ![i] = Append(@, TextOptions(p))]
            /\ pc' = [pc EXCEPT ![i] = "awaiting"]
            /\ UNCHANGED <<result, errlog>>
    /\ UNCHANGED <<validation, signal, outcome>>

\* Variant: signal.aborted is read again when the promise resolves.
ProviderResolvesChecked(i, value) ==
    /\ pc[i] = "awaiting"
    /\ outcome' = [outcome EXCEPT ![i] = Resolved(value, signal[i])]
    /\ IF signal[i]
       THEN Caught(i, callParams[i].query.s, JsError("Search was cancelled"))
       ELSE /\ pc' = [pc EXCEPT ![i] = "fulfilled"]
            /\ result' = [result EXCEPT
                             ![i] = AfterAwait(callParams[i].query.s, value)]
            /\ UNCHANGED errlog
    /\ UNCHANGED <<validation, callParams, signal, checked, calls>>

\* The awaited promise resolves with value: the rest of the try block.
ProviderResolves(i, value) ==
    /\ pc[i] = "awaiting"
    /\ outcome' = [outcome EXCEPT ![i] = Resolved(value, signal[i])]
    /\ pc' = [pc EXCEPT ![i] = "fulfilled"]
    /\ result' = [result EXCEPT ![i] = AfterAwait(callParams[i].query.s, value)]
    /\ UNCHANGED <<validation, callParams, signal, checked, calls, errlog>>

\* Variant: a rejected call is dispatched once more.
ProviderRejectsRetry(i, error) ==
    /\ pc[i] = "awaiting"
    /\ outcome' = [outcome EXCEPT ![i] = Rejected(error, signal[i])]
    /\ IF Len(calls[i]) < 2
       THEN /\ calls' = [calls EXCEPT ![i] = Append(@, TextOptions(callParams[i]))]
            /\ UNCHANGED <<pc, result, errlog>>
       ELSE /\ Caught(i, callParams[i].query.s, error)
            /\ UNCHANGED calls
    /\ UNCHANGED <<validation, callParams, signal, checked>>

\* The awaited promise rejects with error: the catch block.
ProviderRejects(i, error) ==
    /\ pc[i] = "awaiting"
    /\ outcome' = [outcome EXCEPT ![i] = Rejected(error, signal[i])]
    /\ Caught(i, callParams[i].query.s, error)
    /\ UNCHANGED <<validation, callParams, signal, checked, calls>>

\* --------------------------------------------------- specifications ----
\* Concurrent invocations on one tool instance.
Settles(i) ==
    \/ \E value \in ConcValues : ProviderResolves(i, value)
    \/ \E error \in ConcErrors : ProviderRejects(i, error)

Next ==
    \E i \in Invocations :
        \/ \E p \in ConcParams : Execute(i, p)
        \/ Abort(i)
        \/ Settles(i)

Spec == Init /\ [][Next]_vars

\* The provider's promise eventually settles.
FairSpec == Spec /\ \A i \in Invocations : WF_vars(Settles(i))

\* One invocation, over the larger input sets.
SeqNext ==
    \/ \E p \in SeqParams : Execute(1, p)
    \/ Abort(1)
    \/ \E value \in SeqValues : ProviderResolves(1, value)
    \/ \E error \in SeqErrors : ProviderRejects(1, error)

SeqSpec == Init /\ [][SeqNext]_vars

\* validateToolParams alone, over every parameter object in ValParams.
ValSpec == ValInit /\ [][Validate]_vars

\* ------------------------------------------------- text predicates ----
StartsWith(s, prefix) ==
    Len(s) >= Len(prefix) /\ SubSeq(s, 1, Len(prefix)) = prefix

EndsWith(s, suffix) ==
    Len(s) >= Len(suffix)
        /\ SubSeq(s, Len(s) - Len(suffix) + 1, Len(s)) = suffix

Contains(s, part) ==
    \E k \in 1..(Len(s) - Len(part) + 1) : SubSeq(s, k, k + Len(part) - 1) = part

\* part occurs in s and the text after that occurrence ends with tail.
ContainsFollowedBy(s, part, tail) ==
    \E k \in 1..(Len(s) - Len(part) + 1) :
        /\ SubSeq(s, k, k + Len(part) - 1) = part
        /\ EndsWith(SubSeq(s, k + Len(part), Len(s)), tail)

\* s is empty or consists of white space only.
BlankText(s) == \A k \in 1..Len(s) : SubSeq(s, k, k) \in {" ", "\t", "\n"}

\* params conforms to the declared schema: query is present and a string.
Conforms(p) == p.query.t = "string"

ValidParams(p) == Conforms(p) /\ ~BlankText(p.query.s)

ErrorDisplay == "Error performing DuckDuckGo web search."

ErrorPrefix(query) ==
    "Error: Error during DuckDuckGo web search for query \"" \o query \o "\": "

\* ------------------------------------------------------------ claims ----
\* C5: validateToolParams returns null exactly when params conforms to the
\* schema and query is a string that is not blank; for an empty or
\* white-space-only query it returns exactly "The 'query' parameter cannot
\* be empty."; for a missing query it returns a schema error that mentions
\* query; and a non-conforming params never gets the empty-query message.
C5_ValidateContract ==
    validation.stage = "returned" =>
        LET p == validation.params
            c == validation.completion
        IN  /\ ~c.throw
            /\ (c.value = Null) <=> ValidParams(p)
            /\ c.value # Null => c.value.t = "string" /\ c.value.s # ""
            /\ (Conforms(p) /\ BlankText(p.query.s)) =>
                   c.value = Str("The 'query' parameter cannot be empty.")
            /\ p.query.t = "undefined" => Contains(c.value.s, "query")
            /\ ~Conforms(p) =>
                   c.value # Str("The 'query' parameter cannot be empty.")

C5_Witness ==
    /\ validation.stage = "returned"
    /\ validation.params.query = Str(" \t ")
    /\ validation.completion.value = Str("The 'query' parameter cannot be empty.")

\* C2: when validateToolParams reports an error for the params of an
\* invocation, the invocation is fulfilled at once with llmContent =
\* "Error: Invalid parameters provided. Reason: " + message, returnDisplay =
\* message, no sources, and no provider call, whatever the signal.
C2_ValidationError ==
    \A i \in Invocations :
        LET c == validateToolParams(callParams[i]) IN
        (pc[i] # "idle" /\ ~c.throw /\ Truthy(c.value)) =>
            /\ pc[i] = "fulfilled"
            /\ result[i].llmContent =
                   "Error: Invalid parameters provided. Reason: " \o c.value.s
            /\ result[i].returnDisplay = c.value.s
            /\ ~result[i].hasSources
            /\ calls[i] = <<>>
            /\ outcome[i].kind = "none"
            /\ checked[i] = "none"

C2_Witness ==
    /\ pc[1] = "fulfilled"
    /\ callParams[1].query = Str(" \t")
    /\ signal[1]
    /\ result[1].returnDisplay = "The 'query' parameter cannot be empty."

\* C3: an invocation that starts with valid params and an already aborted
\* signal never calls the provider and is fulfilled with llmContent starting
\* with 'Error: Error during DuckDuckGo web search for query "<query>": ',
\* returnDisplay "Error performing DuckDuckGo web search." and no sources.
C3_AbortedBeforeDispatch ==
    [][\A i \in Invocations :
          (pc[i] = "idle" /\ pc'[i] # "idle" /\ signal[i]
              /\ ValidParams(callParams'[i])) =>
              /\ pc'[i] = "fulfilled"
              /\ calls'[i] = <<>>
              /\ StartsWith(result'[i].llmContent,
                            ErrorPrefix(callParams'[i].query.s))
              /\ result'[i].returnDisplay = ErrorDisplay
              /\ ~result'[i].hasSources]_vars

C3_Witness ==
    /\ pc[1] = "fulfilled"
    /\ checked[1] = "aborted"
    /\ callParams[1].query = Str(" big cats ")
    /\ calls[1] = <<>>
    /\ result[1].returnDisplay = ErrorDisplay

\* C4: a result carries sources if and only if the provider call succeeded
\* with at least one result, and then sources is the provider's list itself,
\* unmodified and in order.
C4_SourcesIff ==
    \A i \in Invocations :
        /\ result[i].hasSources <=>
               /\ pc[i] = "fulfilled"
               /\ outcome[i].kind = "resolved"
               /\ outcome[i].value.t = "array"
               /\ Len(outcome[i].value.items) >= 1
        /\ result[i].hasSources => result[i].sources = outcome[i].value.items

C4_Witness ==
    /\ pc[1] = "fulfilled"
    /\ outcome[1].kind = "resolved"
    /\ Len(outcome[1].value.items) = 2
    /\ outcome[1].value.items[1] # outcome[1].value.items[2]
    /\ result[1].hasSources
    /\ result[1].sources = outcome[1].value.items

\* C6: every provider call carries maxResults 5, safesearch 'off' and, as
\* keywords, the query exactly as the caller supplied it.
C6_ProviderOptions ==
    \A i \in Invocations :
        \A k \in 1..Len(calls[i]) :
            /\ calls[i][k].maxResults = 5
            /\ calls[i][k].safesearch = "off"
            /\ calls[i][k].keywords = callParams[i].query
            /\ calls[i][k].keywords.t = "string"

C6_Witness ==
    \E i, j \in Invocations :
        /\ i # j
        /\ pc[j] = "fulfilled"
        /\ Len(calls[i]) = 1
        /\ calls[i][1] =
               [keywords |-> Str("dogs "), safesearch |-> "off", maxResults |-> 5]

\* C7: an invocation calls the provider at most once, and when that call
\* fails the invocation is fulfilled with llmContent containing 'Error during
\* DuckDuckGo web search for query "<query>"' followed by the error's
\* message and returnDisplay "Error performing DuckDuckGo web search.".
C7_NoRetry ==
    \A i \in Invocations :
        /\ Len(calls[i]) <= 1
        /\ outcome[i].kind = "rejected" =>
               /\ pc[i] = "fulfilled"
               /\ Len(calls[i]) = 1
               /\ ContainsFollowedBy(
                      result[i].llmContent,
                      "Error during DuckDuckGo web search for query \""
                          \o callParams[i].query.s \o "\"",
                      outcome[i].error.s)
               /\ result[i].returnDisplay = ErrorDisplay

C7_Witness ==
    /\ pc[1] = "fulfilled"
    /\ outcome[1].kind = "rejected"
    /\ outcome[1].error = JsError("Network error")
    /\ Len(calls[1]) = 1
    /\ EndsWith(result[1].llmContent, "\"cats\": Network error")

\* The text the success path is to produce for query and the provider's
\* list results, with Line(i, r) the Sources line of the i-th result r.
Shown(text, fallback) == IF text = "" THEN fallback ELSE text

ExpectedBlock(i, r) ==
    ToString(i) \o ". " \o Shown(r.title, "Untitled")
        \o "\n   URL: " \o Shown(r.href, "No URL")
        \o "\n   Snippet: " \o Shown(r.body, "No description") \o "\n\n"

RECURSIVE ExpectedBlocks(_, _)
ExpectedBlocks(results, n) ==
    IF n = 0 THEN ""
    ELSE ExpectedBlocks(results, n - 1) \o ExpectedBlock(n, results[n])

RECURSIVE ExpectedLines(_, _, _)
ExpectedLines(Line(_, _), results, n) ==
    IF n = 0 THEN ""
    ELSE IF n = 1 THEN Line(1, results[1])
    ELSE ExpectedLines(Line, results, n - 1) \o "\n" \o Line(n, results[n])

ExpectedContent(Line(_, _), query, results) ==
    "DuckDuckGo search results for \"" \o query \o "\":\n\n"
        \o ExpectedBlocks(results, Len(results))
        \o "\nSources:\n" \o ExpectedLines(Line, results, Len(results))

RawLine(i, r) == "[" \o ToString(i) \o "] " \o r.title \o " (" \o r.href \o ")"

ShownLine(i, r) ==
    "[" \o ToString(i) \o "] " \o Shown(r.title, "Untitled")
        \o " (" \o Shown(r.href, "No URL") \o ")"

SuccessTexts(Line(_, _)) ==
    \A i \in Invocations :
        (pc[i] = "fulfilled" /\ outcome[i].kind = "resolved"
             /\ outcome[i].value.t = "array") =>
            LET query == callParams[i].query.s
                results == outcome[i].value.items
            IN  IF Len(results) >= 1
                THEN /\ result[i].llmContent =
                            ExpectedContent(Line, query, results)
                     /\ result[i].returnDisplay =
                            "Search results for \"" \o query \o "\" returned."
                ELSE /\ result[i].llmContent =
                            "No search results found for query: \""
                                \o query \o "\""
                     /\ result[i].returnDisplay = "No information found."

\* C8 as stated: the Sources line of each result carries that result's own
\* title and href.
C8_Original == SuccessTexts(RawLine)

\* C8 amended: on success with n >= 1 results llmContent is the header, the
\* n numbered blocks in provider order, then the Sources section whose i-th
\* line is "[i] <title> (<href>)" with the title and href as shown in the
\* i-th block, that is with 'Untitled' and 'No URL' in place of empty ones;
\* returnDisplay is 'Search results for "<query>" returned.'. On success
\* with zero results the two texts are the fixed no-results texts.
C8_SuccessTexts == SuccessTexts(ShownLine)

C8_Witness ==
    /\ pc[1] = "fulfilled"
    /\ outcome[1].kind = "resolved"
    /\ outcome[1].value.items = <<Bare, Full>>
    /\ callParams[1].query.s = " big cats "
    /\ Contains(result[1].llmContent, "[1] Untitled (No URL)\n[2] T (http://h)")

\* C9: a result is a function of the invocation's query, of what its read
\* of the signal saw and of the provider's outcome: two invocations that
\* agree on these hold the same llmContent and returnDisplay, however they
\* were interleaved.
C9_Independent ==
    \A i, j \in Invocations :
        (/\ pc[i] = "fulfilled"
         /\ pc[j] = "fulfilled"
         /\ callParams[i].query = callParams[j].query
         /\ checked[i] = checked[j]
         /\ outcome[i].kind = outcome[j].kind
         /\ outcome[i].value = outcome[j].value
         /\ outcome[i].error = outcome[j].error) =>
            /\ result[i].llmContent = result[j].llmContent
            /\ result[i].returnDisplay = result[j].returnDisplay

C9_Witness ==
    \E i, j \in Invocations :
        /\ i # j
        /\ pc[i] = "fulfilled"
        /\ pc[j] = "fulfilled"
        /\ callParams[i].query = Str("cats")
        /\ callParams[j].query = Str("cats")
        /\ outcome[i].value = Array(<<Bare, Full>>)
        /\ outcome[j].value = Array(<<Bare, Full>>)
        /\ outcome[i].aborted
        /\ ~outcome[j].aborted
        /\ result[i].llmContent = result[j].llmContent

\* C10: the signal is read once, before dispatch. An abort while the call
\* is in flight completes nothing and changes nothing else, and the result
\* is the one the provider's outcome determines: the success texts when it
\* resolves, the error result only when it rejects.
C10_InFlightAbortIgnored ==
    /\ [](\A i \in Invocations :
            (pc[i] = "fulfilled" /\ checked[i] = "clear") =>
                /\ outcome[i].kind \in {"resolved", "rejected"}
                /\ (result[i].returnDisplay = ErrorDisplay) <=>
                       (outcome[i].kind = "rejected")
                /\ (outcome[i].kind = "resolved"
                       /\ Len(outcome[i].value.items) >= 1) =>
                       /\ result[i].hasSources
                       /\ result[i].returnDisplay =
                              "Search results for \"" \o callParams[i].query.s
                                  \o "\" returned."
                /\ (outcome[i].kind = "resolved"
                       /\ Len(outcome[i].value.items) = 0) =>
                       result[i].returnDisplay = "No information found.")
    /\ [][\A i \in Invocations :
            (pc[i] = "awaiting" /\ ~signal[i] /\ signal'[i]) =>
                /\ pc'[i] = "awaiting"
                /\ calls'[i] = calls[i]
                /\ result'[i] = result[i]
                /\ errlog'[i] = errlog[i]]_vars

C10_Witness ==
    \E i \in Invocations :
        /\ pc[i] = "fulfilled"
        /\ checked[i] = "clear"
        /\ outcome[i].kind = "resolved"
        /\ outcome[i].aborted
        /\ result[i].hasSources
        /\ result[i].returnDisplay = "Search results for \"cats\" returned."

\* C1: every invocation of execute is settled exactly once, by fulfilment
\* with a ToolResult and never by rejection, for every params, every state
\* of the signal and every provider outcome, given that the provider's
\* promise settles.
C1_AlwaysResolves ==
    /\ [](\A i \in Invocations :
            /\ pc[i] # "rejected"
            /\ pc[i] = "fulfilled" =>
                   result[i].llmContent # "" /\ result[i].returnDisplay # "")
    /\ [][\A i \in Invocations :
            pc[i] = "fulfilled" =>
                pc'[i] = "fulfilled" /\ result'[i] = result[i]]_vars
    /\ \A i \in Invocations : (pc[i] = "awaiting") ~> (pc[i] = "fulfilled")

C1_Witness ==
    \E i, j \in Invocations :
        /\ pc[i] = "fulfilled"
        /\ outcome[i].kind = "rejected"
        /\ pc[j] = "fulfilled"
        /\ callParams[j].query = Num("7")
        /\ signal[j]

====
